---------------------------- MODULE Spec2Model ----------------------------
(***************************************************************************)
(* LifecycleComponent of angular-lifecycle-app: the lifecycle hooks, the   *)
(* sampling counters and the bounded log buffer kept by addLog.            *)
(*                                                                         *)
(* A text is a sequence of tokens.  Fixed parts of a template literal are  *)
(* one token each; an interpolated value is spelled out character by       *)
(* character, so that "the line contains A" can be decided.                *)
(***************************************************************************)
EXTENDS Integers, Sequences, FiniteSets, TLC

(***************************************************************************)
(* Program constants.                                                      *)
(***************************************************************************)
MaxLogs == 50
FirstChecks == 5
CheckEvery == 10
FirstContentChecks == 3
ContentCheckEvery == 10
FirstViewChecks == 3
ViewCheckEvery == 10
SecondsPerDay == 86400

(***************************************************************************)
(* Bounds of the exploration.                                              *)
(***************************************************************************)
MaxOps == 3
FillProps == 48
MaxClock == 1
MaxChecks == 25
MaxCold == 2
MaxStrLen == 2
MaxProps == 2
MaxCycles == 5
MaxInputs == 1
MaxClicks == 1
MaxScenarioChecks == 7
MaxIncrements == 11
MaxInstances == 2
MaxParentCycles == 2
MaxLiveCycles == 131
MaxRefCalls == 1

VARIABLES
    name,               \* @Input() name
    counter,            \* counter
    logs,               \* logs: string[]
    checkCount,         \* private checkCount
    contentCheckCount,  \* private contentCheckCount
    viewCheckCount,     \* private viewCheckCount
    console,            \* what console.log has received, oldest first
    clock,              \* the wall clock read by new Date(), in seconds
    calls,              \* per operation, the calls made on the instance
    changes,            \* the changeset of the latest ngOnChanges call
    delivered,          \* the changed properties delivered so far, in all
    pc,                 \* the host: the hook it delivers next, or its rest state
    pending,            \* the host: the changeset of the cycle under way
    cycle,              \* the host: the cycle under way, as it started
    showComponent,      \* ParentComponent.showComponent
    instances,          \* the LifecycleComponent instances constructed so far
    old,                \* the instance of the earlier version of the component
    ref,                \* the reference components: the calls they have made
    frame,              \* the addLog call under way, statement by statement
    result              \* how the last call ended: "ok" or the error thrown

compVars == <<name, counter, logs, checkCount, contentCheckCount, viewCheckCount>>
vars == <<name, counter, logs, checkCount, contentCheckCount, viewCheckCount,
          console, clock, calls, changes, delivered, pc, pending, cycle,
          showComponent, instances, old, ref, frame, result>>
parentVars == <<showComponent, instances>>
sideVars == <<old, ref, frame>>
hostVars == <<pc, pending, cycle, showComponent, instances, old, ref, frame>>

OpNames == {"ngOnChanges", "ngOnInit", "ngDoCheck", "ngAfterContentInit",
            "ngAfterContentChecked", "ngAfterViewInit", "ngAfterViewChecked",
            "ngOnDestroy", "incrementCounter"}

(***************************************************************************)
(* Values and texts.                                                       *)
(***************************************************************************)
Min(a, b) == IF a < b THEN a ELSE b
Max(a, b) == IF a > b THEN a ELSE b

DigitChar(d) == CASE d = 0 -> "0" [] d = 1 -> "1" [] d = 2 -> "2" [] d = 3 -> "3"
                  [] d = 4 -> "4" [] d = 5 -> "5" [] d = 6 -> "6" [] d = 7 -> "7"
                  [] d = 8 -> "8" [] d = 9 -> "9"

\* `${n}` of a non-negative integer: its decimal digits.
RECURSIVE Digits(_)
Digits(n) == IF n < 10 THEN <<DigitChar(n)>>
             ELSE Append(Digits(n \div 10), DigitChar(n % 10))

Quote == "\""
Backslash == "\\"
Alphabet == {"A", "B", Quote}

Undefined == [type |-> "undefined", chars |-> <<>>]
Str(cs) == [type |-> "string", chars |-> cs]

\* The characters JSON.stringify escapes inside a string.
RECURSIVE Escape(_)
Escape(cs) ==
    IF cs = <<>> THEN <<>>
    ELSE (IF Head(cs) \in {Quote, Backslash} THEN <<Backslash, Head(cs)>>
          ELSE <<Head(cs)>>) \o Escape(Tail(cs))

\* JSON.stringify(v): undefined stays undefined, a string is quoted and escaped.
JSONStringify(v) ==
    IF v.type = "undefined" THEN Undefined
    ELSE Str(<<Quote>> \o Escape(v.chars) \o <<Quote>>)

\* `${v}` inside a template literal.
TemplateText(v) ==
    IF v.type = "undefined" THEN <<"u", "n", "d", "e", "f", "i", "n", "e", "d">>
    ELSE v.chars

\* new Date().toLocaleTimeString(): the time of day, the date is dropped.
toLocaleTimeString(t) == Digits(t % SecondsPerDay)

\* `[${timestamp}] ${message}`
Line(timestamp, message) == <<"[">> \o timestamp \o <<"] ">> \o message

MsgConstructor == <<"#1. Constructor: Component instance created">>
MsgChanges == <<"#2. ngOnChanges: Input properties changed">>
MsgChange(propName, previous, current) ==
    <<"#2. ngOnChanges: - ">> \o propName \o <<": ">> \o TemplateText(previous)
        \o <<" → ">> \o TemplateText(current)
MsgInit == <<"#3. ngOnInit: Component initialized (called once)">>
MsgDoCheck(n) == <<"#4. ngDoCheck: Change detection run #">> \o Digits(n)
MsgContentInit == <<"#5. ngAfterContentInit: Content projection initialized (called once)">>
MsgContentChecked(n) == <<"#6. ngAfterContentChecked: Content checked #">> \o Digits(n)
MsgViewInit == <<"#7. ngAfterViewInit: View initialized (called once)">>
MsgViewChecked(n) == <<"#8. ngAfterViewChecked: View checked #">> \o Digits(n)
MsgDestroy == <<"#9. ngOnDestroy: Component is being destroyed">>
MsgDestroyed == <<"#9. ngOnDestroy: Component destroyed - cleanup complete">>
MsgIncrement(n) == <<"User Action: Counter incremented to ">> \o Digits(n)

(***************************************************************************)
(* addLog, on the pair st = [logs, console].                               *)
(***************************************************************************)
\* Variants of the trimming: a guard that lets one entry too many stay, and
\* a pop() in place of the shift().
ShiftIfOverLate(ls) == IF Len(ls) > MaxLogs + 1 THEN Tail(ls) ELSE ls
ShiftIfOverPop(ls) == IF Len(ls) > MaxLogs THEN SubSeq(ls, 1, Len(ls) - 1) ELSE ls
ShiftIfOverTwo(ls) == IF Len(ls) > MaxLogs THEN Tail(Tail(ls)) ELSE ls

\* this.logs.shift() when the buffer has grown past the cap
ShiftIfOver(ls) == IF Len(ls) > MaxLogs THEN Tail(ls) ELSE ls

\* A variant of addLog whose console.log writes the bare message.
AddLogBareConsole(st, message) ==
    LET timestamp == toLocaleTimeString(clock)
        line == Line(timestamp, message)
    IN  [logs |-> ShiftIfOver(Append(st.logs, line)),
         console |-> Append(st.console, message)]

AddLog(st, message) ==
    LET timestamp == toLocaleTimeString(clock)
        line == Line(timestamp, message)
    IN  [logs |-> ShiftIfOver(Append(st.logs, line)),
         console |-> Append(st.console, line)]

Sinks == [logs |-> logs, console |-> console]

Called(op) == calls' = [calls EXCEPT ![op] = @ + 1]

\* The earlier version of the component after its construction.
OldMsgConstructor == <<"Constructor: Component instance created">>
OldConstructed ==
    [name |-> <<"Default Component">>, counter |-> 0,
     logs |-> <<Line(toLocaleTimeString(0), OldMsgConstructor)>>,
     checkCount |-> 0, contentCheckCount |-> 0, viewCheckCount |-> 0,
     console |-> <<Line(toLocaleTimeString(0), OldMsgConstructor)>>,
     result |-> "ok"]

\* The reference components before any call.
NoRef == [handled |-> <<>>, loaded |-> <<>>,
          console |-> << <<"constructor: Component created">> >>,
          changes |-> <<>>, calls |-> 0, component |-> "none"]

\* No addLog call is under way.
NoFrame == [at |-> "none", op |-> "none", message |-> <<>>, timestamp |-> <<>>, before |-> 0]

\* A cycle of the host as it starts: its number for the instance, what set
\* it off, the three counters and the length of the console at that time.
CycleStart(trigger) ==
    [n |-> cycle.n + 1, trigger |-> trigger, checkCount |-> checkCount,
     contentCheckCount |-> contentCheckCount, viewCheckCount |-> viewCheckCount,
     mark |-> Len(console)]
NoCycle == [n |-> 0, trigger |-> "none", checkCount |-> 0, contentCheckCount |-> 0,
            viewCheckCount |-> 0, mark |-> 0]

(***************************************************************************)
(* The state after construction.                                           *)
(***************************************************************************)
Init ==
    /\ name = <<"Default Component">>
    /\ counter = 0
    /\ checkCount = 0
    /\ contentCheckCount = 0
    /\ viewCheckCount = 0
    /\ clock = 0
    /\ logs = <<Line(toLocaleTimeString(0), MsgConstructor)>>
    /\ console = <<Line(toLocaleTimeString(0), MsgConstructor)>>
    /\ calls = [op \in OpNames |-> 0]
    /\ changes = <<>>
    /\ delivered = 0
    /\ pc = "created"
    /\ pending = <<>>
    /\ cycle = NoCycle
    /\ showComponent = TRUE
    /\ instances = 1
    /\ old = OldConstructed
    /\ ref = NoRef
    /\ frame = NoFrame
    /\ result = "ok"

(***************************************************************************)
(* The sampling conditions of the three per-cycle hooks, on the counter    *)
(* after its increment.                                                    *)
(***************************************************************************)
\* Variants of the sampling conditions: no every-tenth sample, a strict
\* comparison, the threshold of ngDoCheck used for the content hook, and no
\* first samples for the view hook.
ShouldLogCheckFirstOnly(n) == n <= FirstChecks
ShouldLogCheckStrict(n) == n < FirstChecks \/ n % CheckEvery = 0
ShouldLogContentCheckAsCheck(n) == n <= FirstChecks \/ n % ContentCheckEvery = 0
ShouldLogViewCheckTenthOnly(n) == n % ViewCheckEvery = 0

ShouldLogCheck(n) == n <= FirstChecks \/ n % CheckEvery = 0
ShouldLogContentCheck(n) == n <= FirstContentChecks \/ n % ContentCheckEvery = 0
ShouldLogViewCheck(n) == n <= FirstViewChecks \/ n % ViewCheckEvery = 0

(***************************************************************************)
(* The hooks without input.                                                *)
(***************************************************************************)
\* A variant of ngOnInit that resets the counter of the view.
ngOnInitResetsCounter ==
    LET st == AddLog(Sinks, MsgInit)
    IN  /\ logs' = st.logs
        /\ console' = st.console
        /\ counter' = 0
        /\ Called("ngOnInit")
        /\ result' = "ok"
        /\ UNCHANGED <<name, checkCount, contentCheckCount, viewCheckCount, clock, changes, delivered>>

ngOnInit ==
    LET st == AddLog(Sinks, MsgInit)
    IN  /\ logs' = st.logs
        /\ console' = st.console
        /\ Called("ngOnInit")
        /\ result' = "ok"
        /\ UNCHANGED <<name, counter, checkCount, contentCheckCount, viewCheckCount, clock, changes, delivered>>

\* A variant of ngDoCheck that writes the counter as it was before the call.
ngDoCheckLogsOld ==
    LET n == checkCount + 1
        st == IF ShouldLogCheck(n)
              THEN AddLog(Sinks, MsgDoCheck(checkCount)) ELSE Sinks
    IN  /\ checkCount' = n
        /\ logs' = st.logs
        /\ console' = st.console
        /\ Called("ngDoCheck")
        /\ result' = "ok"
        /\ UNCHANGED <<name, counter, contentCheckCount, viewCheckCount, clock, changes, delivered>>

ngDoCheck ==
    LET n == checkCount + 1
        st == IF ShouldLogCheck(n)
              THEN AddLog(Sinks, MsgDoCheck(n)) ELSE Sinks
    IN  /\ checkCount' = n
        /\ logs' = st.logs
        /\ console' = st.console
        /\ Called("ngDoCheck")
        /\ result' = "ok"
        /\ UNCHANGED <<name, counter, contentCheckCount, viewCheckCount, clock, changes, delivered>>

ngAfterContentInit ==
    LET st == AddLog(Sinks, MsgContentInit)
    IN  /\ logs' = st.logs
        /\ console' = st.console
        /\ Called("ngAfterContentInit")
        /\ result' = "ok"
        /\ UNCHANGED <<name, counter, checkCount, contentCheckCount, viewCheckCount, clock, changes, delivered>>

ngAfterContentChecked ==
    LET n == contentCheckCount + 1
        st == IF ShouldLogContentCheck(n)
              THEN AddLog(Sinks, MsgContentChecked(n)) ELSE Sinks
    IN  /\ contentCheckCount' = n
        /\ logs' = st.logs
        /\ console' = st.console
        /\ Called("ngAfterContentChecked")
        /\ result' = "ok"
        /\ UNCHANGED <<name, counter, checkCount, viewCheckCount, clock, changes, delivered>>

ngAfterViewInit ==
    LET st == AddLog(Sinks, MsgViewInit)
    IN  /\ logs' = st.logs
        /\ console' = st.console
        /\ Called("ngAfterViewInit")
        /\ result' = "ok"
        /\ UNCHANGED <<name, counter, checkCount, contentCheckCount, viewCheckCount, clock, changes, delivered>>

ngAfterViewChecked ==
    LET n == viewCheckCount + 1
        st == IF ShouldLogViewCheck(n)
              THEN AddLog(Sinks, MsgViewChecked(n)) ELSE Sinks
    IN  /\ viewCheckCount' = n
        /\ logs' = st.logs
        /\ console' = st.console
        /\ Called("ngAfterViewChecked")
        /\ result' = "ok"
        /\ UNCHANGED <<name, counter, checkCount, contentCheckCount, clock, changes, delivered>>

\* addLog, then the direct console.log of the clean-up message
ngOnDestroy ==
    LET st == AddLog(Sinks, MsgDestroy)
    IN  /\ logs' = st.logs
        /\ console' = Append(st.console, MsgDestroyed)
        /\ Called("ngOnDestroy")
        /\ result' = "ok"
        /\ UNCHANGED <<name, counter, checkCount, contentCheckCount, viewCheckCount, clock, changes, delivered>>

\* A variant of incrementCounter that samples its entry as ngDoCheck does.
incrementCounterSampled ==
    LET st == IF ShouldLogCheck(counter + 1) THEN AddLog(Sinks, MsgIncrement(counter + 1))
              ELSE Sinks
    IN  /\ counter' = counter + 1
        /\ logs' = st.logs
        /\ console' = st.console
        /\ Called("incrementCounter")
        /\ result' = "ok"
        /\ UNCHANGED <<name, checkCount, contentCheckCount, viewCheckCount, clock, changes, delivered>>

incrementCounter ==
    LET st == AddLog(Sinks, MsgIncrement(counter + 1))
    IN  /\ counter' = counter + 1
        /\ logs' = st.logs
        /\ console' = st.console
        /\ Called("incrementCounter")
        /\ result' = "ok"
        /\ UNCHANGED <<name, checkCount, contentCheckCount, viewCheckCount, clock, changes, delivered>>

(***************************************************************************)
(* ngOnChanges.  A changeset is the sequence of its entries in the order   *)
(* for..in visits them; an entry is [propName, change], and change is a    *)
(* SimpleChange or null.                                                   *)
(***************************************************************************)
SimpleChange(previous, current) ==
    [kind |-> "SimpleChange", previousValue |-> previous, currentValue |-> current]
NullChange == [kind |-> "null", previousValue |-> Undefined, currentValue |-> Undefined]

\* A variant of the loop body that passes over a first change (one whose
\* previous value is undefined).
LogChangeSkipFirst(run, entry) ==
    IF run.result # "ok" THEN run
    ELSE IF entry.change.kind = "null" THEN [st |-> run.st, result |-> "TypeError"]
    ELSE IF entry.change.previousValue.type = "undefined" THEN run
    ELSE LET current == JSONStringify(entry.change.currentValue)
             previous == JSONStringify(entry.change.previousValue)
         IN  [st |-> AddLog(run.st, MsgChange(entry.propName, previous, current)),
              result |-> "ok"]

\* One pass of the body of the for..in loop, on run = [st, result].  Reading
\* .currentValue of a null entry throws a TypeError, which ends the handler
\* where it stands: once thrown, no later entry is visited.
LogChange(run, entry) ==
    IF run.result # "ok" THEN run
    ELSE IF entry.change.kind = "null" THEN [st |-> run.st, result |-> "TypeError"]
    ELSE LET current == JSONStringify(entry.change.currentValue)
             previous == JSONStringify(entry.change.previousValue)
         IN  [st |-> AddLog(run.st, MsgChange(entry.propName, previous, current)),
              result |-> "ok"]

\* The loop over the entries lo..hi in iteration order (the range is halved
\* only to keep the evaluation shallow; the entries are visited left to right).
RECURSIVE LogChanges(_, _, _, _)
LogChanges(run, changeset, lo, hi) ==
    IF lo > hi THEN run
    ELSE IF lo = hi THEN LogChange(run, changeset[lo])
    ELSE LET mid == (lo + hi) \div 2
             left == LogChanges(run, changeset, lo, mid)
         IN  IF left.result # "ok" THEN left
             ELSE LogChanges(left, changeset, mid + 1, hi)

\* A variant of ngOnChanges that logs the summary line after the loop.
ngOnChangesSummaryLast(changeset) ==
    LET out == LogChanges([st |-> Sinks, result |-> "ok"], changeset, 1, Len(changeset))
        st == IF out.result = "ok" THEN AddLog(out.st, MsgChanges) ELSE out.st
    IN  /\ logs' = st.logs
        /\ console' = st.console
        /\ Called("ngOnChanges")
        /\ changes' = changeset
        /\ delivered' = delivered + Len(changeset)
        /\ result' = out.result
        /\ UNCHANGED <<name, counter, checkCount, contentCheckCount, viewCheckCount, clock>>

\* A variant of ngOnChanges that trims the buffer once, when the call ends.
ngOnChangesTrimOnce(changeset) ==
    LET start == [st |-> AddLog(Sinks, MsgChanges), result |-> "ok"]
        out == LogChanges(start, changeset, 1, Len(changeset))
        new == SubSeq(out.st.console, Len(console) + 1, Len(out.st.console))
    IN  /\ logs' = ShiftIfOver(logs \o new)
        /\ console' = out.st.console
        /\ Called("ngOnChanges")
        /\ changes' = changeset
        /\ delivered' = delivered + Len(changeset)
        /\ result' = out.result
        /\ UNCHANGED <<name, counter, checkCount, contentCheckCount, viewCheckCount, clock>>

ngOnChanges(changeset) ==
    LET start == [st |-> AddLog(Sinks, MsgChanges), result |-> "ok"]
        out == LogChanges(start, changeset, 1, Len(changeset))
    IN  /\ logs' = out.st.logs
        /\ console' = out.st.console
        /\ Called("ngOnChanges")
        /\ changes' = changeset
        /\ delivered' = delivered + Len(changeset)
        /\ result' = out.result
        /\ UNCHANGED <<name, counter, checkCount, contentCheckCount, viewCheckCount, clock>>

\* Time passes between two calls; a handler runs to completion within a second.
Tick ==
    /\ clock < MaxClock
    /\ clock' = clock + 1
    /\ UNCHANGED <<compVars, console, calls, changes, delivered, hostVars, result>>

(***************************************************************************)
(* Changesets.                                                             *)
(***************************************************************************)
PropName(i) == IF i = 1 THEN <<"name">> ELSE <<"p">> \o Digits(i)

NameChange(previous, current) ==
    <<[propName |-> PropName(1), change |-> SimpleChange(previous, current)]>>

\* k properties, each changed from previous to current
FillWith(k, previous, current) ==
    [i \in 1..k |-> [propName |-> PropName(i), change |-> SimpleChange(previous, current)]]
Fill(k) == FillWith(k, Str(<<"A">>), Str(<<"B">>))

FreeChangeSets == {<<>>, NameChange(Str(<<"A">>), Str(<<"B">>)), Fill(FillProps)}

(***************************************************************************)
(* Spec: the operations of one instance in any order, MaxOps calls.        *)
(***************************************************************************)
NCalls == calls["ngOnChanges"] + calls["ngOnInit"] + calls["ngDoCheck"]
          + calls["ngAfterContentInit"] + calls["ngAfterContentChecked"]
          + calls["ngAfterViewInit"] + calls["ngAfterViewChecked"]
          + calls["ngOnDestroy"] + calls["incrementCounter"]

CallChanges == NCalls < MaxOps /\ \E changeset \in FreeChangeSets : ngOnChanges(changeset) /\ UNCHANGED hostVars
CallInit == NCalls < MaxOps /\ ngOnInit /\ UNCHANGED hostVars
CallDoCheck == NCalls < MaxOps /\ ngDoCheck /\ UNCHANGED hostVars
CallContentInit == NCalls < MaxOps /\ ngAfterContentInit /\ UNCHANGED hostVars
CallContentChecked == NCalls < MaxOps /\ ngAfterContentChecked /\ UNCHANGED hostVars
CallViewInit == NCalls < MaxOps /\ ngAfterViewInit /\ UNCHANGED hostVars
CallViewChecked == NCalls < MaxOps /\ ngAfterViewChecked /\ UNCHANGED hostVars
CallDestroy == NCalls < MaxOps /\ ngOnDestroy /\ UNCHANGED hostVars
CallIncrement == NCalls < MaxOps /\ incrementCounter /\ UNCHANGED hostVars

Next ==
    \/ CallChanges
    \/ CallInit
    \/ CallDoCheck
    \/ CallContentInit
    \/ CallContentChecked
    \/ CallViewInit
    \/ CallViewChecked
    \/ CallDestroy
    \/ CallIncrement
    \/ Tick

Spec == Init /\ [][Next]_vars

(***************************************************************************)
(* SpecSampling: the three sampled hooks, in any order.  One of them may   *)
(* be called MaxChecks times; the calls of the other two together stay     *)
(* within MaxCold.                                                         *)
(***************************************************************************)
InWindow(a, b, c) ==
    /\ a <= MaxChecks /\ b <= MaxChecks /\ c <= MaxChecks
    /\ a + b + c - Max(a, Max(b, c)) <= MaxCold

SampleDoCheck ==
    /\ InWindow(checkCount + 1, contentCheckCount, viewCheckCount)
    /\ ngDoCheck
    /\ UNCHANGED hostVars
SampleContentChecked ==
    /\ InWindow(checkCount, contentCheckCount + 1, viewCheckCount)
    /\ ngAfterContentChecked
    /\ UNCHANGED hostVars
SampleViewChecked ==
    /\ InWindow(checkCount, contentCheckCount, viewCheckCount + 1)
    /\ ngAfterViewChecked
    /\ UNCHANGED hostVars

NextSampling == SampleDoCheck \/ SampleContentChecked \/ SampleViewChecked

SpecSampling == Init /\ [][NextSampling]_vars

(***************************************************************************)
(* SpecChanges: ngOnChanges over a range of changesets, on the fresh       *)
(* instance and on an instance whose buffer a large changeset has filled.  *)
(***************************************************************************)
Strings == UNION {[1..k -> Alphabet] : k \in 0..MaxStrLen}
Values == {Undefined} \cup {Str(cs) : cs \in Strings}

\* one property, any two values, or a null entry
OneProp == {NameChange(a, b) : a, b \in Values}
           \cup {<<[propName |-> PropName(1), change |-> NullChange]>>}

\* up to MaxProps properties in any iteration order
SmallChanges == {SimpleChange(Str(<<"A">>), Str(<<"B">>)),
                 SimpleChange(Undefined, Str(<<"A">>)),
                 NullChange}
Orders(k) == {f \in [1..k -> 1..MaxProps] : \A i, j \in 1..k : f[i] = f[j] => i = j}
ManyProps ==
    UNION {{[i \in 1..k |-> [propName |-> PropName(f[i]), change |-> g[i]]] :
              f \in Orders(k), g \in [1..k -> SmallChanges]} : k \in 0..MaxProps}

RichChangeSets == OneProp \cup ManyProps

ChangeFresh ==
    /\ calls["ngOnChanges"] = 0
    /\ \E changeset \in RichChangeSets : ngOnChanges(changeset)
    /\ UNCHANGED hostVars
FillBuffer ==
    /\ calls["ngOnChanges"] = 0
    /\ ngOnChanges(Fill(FillProps))
    /\ UNCHANGED hostVars
ChangeFull ==
    /\ calls["ngOnChanges"] = 1
    /\ Len(logs) = MaxLogs
    /\ \E changeset \in RichChangeSets : ngOnChanges(changeset)
    /\ UNCHANGED hostVars
\* a changeset with as many properties as the buffer holds entries
ChangeWide ==
    /\ calls["ngOnChanges"] <= 1
    /\ ngOnChanges(Fill(MaxLogs))
    /\ UNCHANGED hostVars

NextChanges == ChangeFresh \/ FillBuffer \/ ChangeFull \/ ChangeWide \/ Tick

SpecChanges == Init /\ [][NextChanges]_vars

(***************************************************************************)
(* SpecHost: the hooks as the host delivers them.  Creation runs           *)
(* ngOnChanges, ngOnInit, ngDoCheck, ngAfterContentInit,                   *)
(* ngAfterContentChecked, ngAfterViewInit, ngAfterViewChecked; every later *)
(* cycle runs ngOnChanges (if the bound input changed), ngDoCheck,         *)
(* ngAfterContentChecked, ngAfterViewChecked; destruction runs             *)
(* ngOnDestroy.  A cycle starts on a new value of the bound input, on a    *)
(* click of the increment button, or on any other event of the page.       *)
(***************************************************************************)
ParentName == <<"Lifecycle Demo">>
TypedNames == {<<"A">>, <<"B">>}

\* The first changeset: the one bound input of the parent's template, or a
\* wide one of FillProps inputs.
FirstChangeSets == {NameChange(Undefined, Str(ParentName)),
                    FillWith(FillProps, Undefined, Str(<<"B">>))}

\* The host writes the input before it delivers ngOnChanges.
HostBindFirst ==
    /\ pc = "created"
    /\ \E changeset \in FirstChangeSets :
          /\ pending' = changeset
          /\ name' = changeset[1].change.currentValue.chars
    /\ pc' = "ngOnChanges"
    /\ cycle' = CycleStart("create")
    /\ UNCHANGED <<parentVars, sideVars>>
    /\ UNCHANGED <<counter, logs, checkCount, contentCheckCount, viewCheckCount,
                   console, clock, calls, changes, delivered, result>>

HostBind ==
    /\ pc = "idle"
    /\ checkCount < MaxCycles
    /\ calls["ngOnChanges"] <= MaxInputs
    /\ \E typed \in TypedNames \ {name} :
          /\ pending' = NameChange(Str(name), Str(typed))
          /\ name' = typed
    /\ pc' = "ngOnChanges"
    /\ cycle' = CycleStart("input")
    /\ UNCHANGED <<parentVars, sideVars>>
    /\ UNCHANGED <<counter, logs, checkCount, contentCheckCount, viewCheckCount,
                   console, clock, calls, changes, delivered, result>>

\* Variants of the step after ngOnChanges: one that never runs ngOnInit, one
\* that runs it after every ngOnChanges.
HostChangesNoInit ==
    /\ pc = "ngOnChanges"
    /\ ngOnChanges(pending)
    /\ pc' = "ngDoCheck"
    /\ pending' = <<>>
    /\ UNCHANGED <<cycle, parentVars, sideVars>>
HostChangesInitAgain ==
    /\ pc = "ngOnChanges"
    /\ ngOnChanges(pending)
    /\ pc' = "ngOnInit"
    /\ pending' = <<>>
    /\ UNCHANGED <<cycle, parentVars, sideVars>>

HostChanges ==
    /\ pc = "ngOnChanges"
    /\ ngOnChanges(pending)
    /\ pc' = IF calls["ngOnInit"] = 0 THEN "ngOnInit" ELSE "ngDoCheck"
    /\ pending' = <<>>
    /\ UNCHANGED <<cycle, parentVars, sideVars>>

HostInit ==
    /\ pc = "ngOnInit"
    /\ ngOnInit
    /\ pc' = "ngDoCheck"
    /\ UNCHANGED <<pending, cycle, parentVars, sideVars>>

HostDoCheck ==
    /\ pc = "ngDoCheck"
    /\ ngDoCheck
    /\ pc' = IF calls["ngAfterContentInit"] = 0 THEN "ngAfterContentInit"
             ELSE "ngAfterContentChecked"
    /\ UNCHANGED <<pending, cycle, parentVars, sideVars>>

HostContentInit ==
    /\ pc = "ngAfterContentInit"
    /\ ngAfterContentInit
    /\ pc' = "ngAfterContentChecked"
    /\ UNCHANGED <<pending, cycle, parentVars, sideVars>>

\* A variant that ends a later cycle after ngAfterContentChecked.
HostContentCheckedEndsCycle ==
    /\ pc = "ngAfterContentChecked"
    /\ ngAfterContentChecked
    /\ pc' = IF calls["ngAfterViewInit"] = 0 THEN "ngAfterViewInit"
             ELSE "idle"
    /\ UNCHANGED <<pending, cycle, parentVars, sideVars>>

HostContentChecked ==
    /\ pc = "ngAfterContentChecked"
    /\ ngAfterContentChecked
    /\ pc' = IF calls["ngAfterViewInit"] = 0 THEN "ngAfterViewInit"
             ELSE "ngAfterViewChecked"
    /\ UNCHANGED <<pending, cycle, parentVars, sideVars>>

HostViewInit ==
    /\ pc = "ngAfterViewInit"
    /\ ngAfterViewInit
    /\ pc' = "ngAfterViewChecked"
    /\ UNCHANGED <<pending, cycle, parentVars, sideVars>>

HostViewChecked ==
    /\ pc = "ngAfterViewChecked"
    /\ ngAfterViewChecked
    /\ pc' = "idle"
    /\ UNCHANGED <<pending, cycle, parentVars, sideVars>>

\* A variant of the click that delivers ngOnChanges for the unchanged input.
HostClickRebinds ==
    /\ pc = "idle"
    /\ checkCount < MaxCycles
    /\ counter < MaxClicks
    /\ incrementCounter
    /\ pc' = "ngOnChanges"
    /\ pending' = NameChange(Str(name), Str(name))
    /\ cycle' = CycleStart("click")
    /\ UNCHANGED <<parentVars, sideVars>>

\* (click)="incrementCounter()", and the cycle the event starts
HostClick ==
    /\ pc = "idle"
    /\ checkCount < MaxCycles
    /\ counter < MaxClicks
    /\ incrementCounter
    /\ pc' = "ngDoCheck"
    /\ cycle' = CycleStart("click")
    /\ UNCHANGED <<pending, parentVars, sideVars>>

\* a cycle started by another event of the page
HostCycle ==
    /\ pc = "idle"
    /\ checkCount < MaxCycles
    /\ pc' = "ngDoCheck"
    /\ cycle' = CycleStart("event")
    /\ UNCHANGED <<compVars, console, clock, calls, changes, delivered, pending,
                   parentVars, sideVars, result>>

\* the host destroys the instance
HostDestroy ==
    /\ pc = "idle"
    /\ ngOnDestroy
    /\ pc' = "destroyed"
    /\ UNCHANGED <<pending, cycle, parentVars, sideVars>>

NextHost ==
    \/ HostBindFirst
    \/ HostBind
    \/ HostChanges
    \/ HostInit
    \/ HostDoCheck
    \/ HostContentInit
    \/ HostContentChecked
    \/ HostViewInit
    \/ HostViewChecked
    \/ HostClick
    \/ HostCycle
    \/ HostDestroy
    \/ Tick

SpecHost == Init /\ [][NextHost]_vars

(***************************************************************************)
(* SpecScenario: one instance taken through ngOnChanges with one property, *)
(* ngOnInit, up to MaxScenarioChecks ngDoCheck calls and ngOnDestroy, with *)
(* up to MaxIncrements clicks on its button.                               *)
(***************************************************************************)
ScenarioValues == {Undefined, Str(<<"A">>), Str(<<"B", Quote>>)}
ScenarioChangeSets == {NameChange(a, b) : a, b \in ScenarioValues}

ScenarioChanges ==
    /\ NCalls = 0
    /\ \E changeset \in ScenarioChangeSets : ngOnChanges(changeset)
    /\ UNCHANGED hostVars
ScenarioInit ==
    /\ calls["ngOnChanges"] = 1 /\ calls["ngOnInit"] = 0
    /\ ngOnInit
    /\ UNCHANGED hostVars
ScenarioCheck ==
    /\ calls["ngOnInit"] = 1 /\ calls["ngOnDestroy"] = 0
    /\ calls["ngDoCheck"] < MaxScenarioChecks
    /\ ngDoCheck
    /\ UNCHANGED hostVars
ScenarioDestroy ==
    /\ calls["ngOnInit"] = 1 /\ calls["ngOnDestroy"] = 0
    /\ ngOnDestroy
    /\ UNCHANGED hostVars

\* clicks on the button, before the first or after the last ngDoCheck
ScenarioIncrement ==
    /\ calls["ngOnInit"] = 1 /\ calls["ngOnDestroy"] = 0
    /\ calls["ngDoCheck"] \in {0, MaxScenarioChecks}
    /\ counter < MaxIncrements
    /\ incrementCounter
    /\ UNCHANGED hostVars

NextScenario ==
    \/ ScenarioChanges
    \/ ScenarioInit
    \/ ScenarioCheck
    \/ ScenarioIncrement
    \/ ScenarioDestroy
    \/ Tick

SpecScenario == Init /\ [][NextScenario]_vars

(***************************************************************************)
(* SpecParent: ParentComponent shows and hides the child.  A click on its  *)
(* button runs toggleComponent; *ngIf then destroys the child or creates a *)
(* new instance, which the host takes through the creation cycle and up to *)
(* MaxParentCycles cycles.  The console is shared by all instances.        *)
(***************************************************************************)
MsgToggled(shown) == <<"Component ">> \o (IF shown THEN <<"created">> ELSE <<"destroyed">>)

\* A variant of toggleComponent that only ever hides the child.
toggleComponentHides ==
    /\ showComponent' = FALSE
    /\ console' = Append(console, MsgToggled(showComponent'))

toggleComponent ==
    /\ showComponent' = ~showComponent
    /\ console' = Append(console, MsgToggled(showComponent'))

\* Variants of the construction: one that logs nothing, one on the buffer
\* of the instance before.
ConstructSilent(sink) ==
    [name |-> <<"Default Component">>, counter |-> 0, logs |-> <<>>, checkCount |-> 0,
     contentCheckCount |-> 0, viewCheckCount |-> 0, console |-> sink]
ConstructOnOldBuffer(sink) ==
    LET st == AddLog([logs |-> logs, console |-> sink], MsgConstructor)
    IN  [name |-> <<"Default Component">>, counter |-> 0, logs |-> st.logs,
         checkCount |-> 0, contentCheckCount |-> 0, viewCheckCount |-> 0,
         console |-> st.console]

\* new LifecycleComponent(): the field initialisers, then the constructor
Construct(sink) ==
    LET st == AddLog([logs |-> <<>>, console |-> sink], MsgConstructor)
    IN  [name |-> <<"Default Component">>, counter |-> 0, logs |-> st.logs,
         checkCount |-> 0, contentCheckCount |-> 0, viewCheckCount |-> 0,
         console |-> st.console]

\* (click)="toggleComponent()"
ParentToggle ==
    /\ pc \in {"idle", "destroyed"}
    /\ showComponent \/ instances < MaxInstances
    /\ toggleComponent
    /\ pc' = "ngIf"
    /\ UNCHANGED <<compVars, clock, calls, changes, delivered, pending, cycle,
                   instances, sideVars, result>>

\* *ngIf="showComponent" has turned false: the child is destroyed
NgIfDestroy ==
    /\ pc = "ngIf" /\ ~showComponent
    /\ ngOnDestroy
    /\ pc' = "destroyed"
    /\ UNCHANGED <<pending, cycle, parentVars, sideVars>>

\* *ngIf="showComponent" has turned true: a new child is constructed
NgIfCreate ==
    /\ pc = "ngIf" /\ showComponent
    /\ LET new == Construct(console)
       IN  /\ name' = new.name
           /\ counter' = new.counter
           /\ logs' = new.logs
           /\ checkCount' = new.checkCount
           /\ contentCheckCount' = new.contentCheckCount
           /\ viewCheckCount' = new.viewCheckCount
           /\ console' = new.console
    /\ instances' = instances + 1
    /\ calls' = [op \in OpNames |-> 0]
    /\ changes' = <<>>
    /\ delivered' = 0
    /\ pending' = <<>>
    /\ cycle' = NoCycle
    /\ result' = "ok"
    /\ pc' = "created"
    /\ UNCHANGED <<clock, showComponent, sideVars>>

ParentClick == checkCount < MaxParentCycles /\ HostClick
ParentCycle == checkCount < MaxParentCycles /\ HostCycle
\* time passes while the child is hidden
ParentTick == pc = "destroyed" /\ Tick

NextParent ==
    \/ ParentToggle
    \/ NgIfDestroy
    \/ NgIfCreate
    \/ HostBindFirst
    \/ HostChanges
    \/ HostInit
    \/ HostDoCheck
    \/ HostContentInit
    \/ HostContentChecked
    \/ HostViewInit
    \/ HostViewChecked
    \/ ParentClick
    \/ ParentCycle
    \/ ParentTick

SpecParent == Init /\ [][NextParent]_vars

(***************************************************************************)
(* SpecCycles: a live instance on which the host keeps running cycles, up  *)
(* to MaxLiveCycles of them.  SpecLive is the instance of the parent's     *)
(* template, with its one input, on which the host does not stop while a   *)
(* step is due.                                                            *)
(***************************************************************************)
\* the next cycle of a page that keeps raising events
LiveCycle ==
    /\ pc = "idle"
    /\ checkCount < MaxLiveCycles
    /\ pc' = "ngDoCheck"
    /\ cycle' = CycleStart("event")
    /\ UNCHANGED <<compVars, console, clock, calls, changes, delivered, pending,
                   parentVars, sideVars, result>>

NextCycles ==
    \/ HostBindFirst
    \/ HostChanges
    \/ HostInit
    \/ HostDoCheck
    \/ HostContentInit
    \/ HostContentChecked
    \/ HostViewInit
    \/ HostViewChecked
    \/ LiveCycle

SpecCycles == Init /\ [][NextCycles]_vars

\* the first binding of the one input of the parent's template
LiveBindFirst == HostBindFirst /\ Len(pending') = 1

NextLive ==
    \/ LiveBindFirst
    \/ HostChanges
    \/ HostInit
    \/ HostDoCheck
    \/ HostContentInit
    \/ HostContentChecked
    \/ HostViewInit
    \/ HostViewChecked
    \/ LiveCycle

SpecLive == Init /\ [][NextLive]_vars /\ WF_vars(NextLive)

(***************************************************************************)
(* The earlier version of LifecycleComponent, on its own state, the record *)
(* old: the same methods, with other message texts.                        *)
(***************************************************************************)
OldMsgChanges == <<"ngOnChanges: Input properties changed">>
OldMsgChange(propName, previous, current) ==
    <<"  - ">> \o propName \o <<": ">> \o TemplateText(previous)
        \o <<" → ">> \o TemplateText(current)
OldMsgInit == <<"ngOnInit: Component initialized (called once)">>
OldMsgDoCheck(n) == <<"ngDoCheck: Change detection run #">> \o Digits(n)
OldMsgContentInit == <<"ngAfterContentInit: Content projection initialized (called once)">>
OldMsgContentChecked(n) == <<"ngAfterContentChecked: Content checked #">> \o Digits(n)
OldMsgViewInit == <<"ngAfterViewInit: View initialized (called once)">>
OldMsgViewChecked(n) == <<"ngAfterViewChecked: View checked #">> \o Digits(n)
OldMsgDestroy == <<"ngOnDestroy: Component is being destroyed">>
OldMsgDestroyed == <<"Component destroyed - cleanup complete">>
OldMsgIncrement(n) == <<"User Action: Counter incremented to ">> \o Digits(n)

\* A variant of the earlier addLog that keeps one entry less.
OldAddLogShort(o, message) ==
    LET timestamp == toLocaleTimeString(clock)
        line == Line(timestamp, message)
        pushed == Append(o.logs, line)
    IN  [o EXCEPT !.logs = IF Len(pushed) > MaxLogs - 1 THEN Tail(pushed) ELSE pushed,
                  !.console = Append(o.console, line)]

OldAddLog(o, message) ==
    LET timestamp == toLocaleTimeString(clock)
        line == Line(timestamp, message)
        pushed == Append(o.logs, line)
    IN  [o EXCEPT !.logs = IF Len(pushed) > MaxLogs THEN Tail(pushed) ELSE pushed,
                  !.console = Append(o.console, line)]

OldLogChange(o, entry) ==
    IF o.result # "ok" THEN o
    ELSE IF entry.change.kind = "null" THEN [o EXCEPT !.result = "TypeError"]
    ELSE LET current == JSONStringify(entry.change.currentValue)
             previous == JSONStringify(entry.change.previousValue)
         IN  OldAddLog(o, OldMsgChange(entry.propName, previous, current))

RECURSIVE OldLogChanges(_, _, _, _)
OldLogChanges(o, changeset, lo, hi) ==
    IF lo > hi THEN o
    ELSE IF lo = hi THEN OldLogChange(o, changeset[lo])
    ELSE LET mid == (lo + hi) \div 2
             left == OldLogChanges(o, changeset, lo, mid)
         IN  IF left.result # "ok" THEN left
             ELSE OldLogChanges(left, changeset, mid + 1, hi)

Old_ngOnChanges(o, changeset) ==
    OldLogChanges(OldAddLog([o EXCEPT !.result = "ok"], OldMsgChanges), changeset,
                  1, Len(changeset))
Old_ngOnInit(o) == OldAddLog(o, OldMsgInit)
Old_ngDoCheck(o) ==
    LET n == o.checkCount + 1
        counted == [o EXCEPT !.checkCount = n]
    IN  IF n <= FirstChecks \/ n % CheckEvery = 0
        THEN OldAddLog(counted, OldMsgDoCheck(n)) ELSE counted
Old_ngAfterContentInit(o) == OldAddLog(o, OldMsgContentInit)
Old_ngAfterContentChecked(o) ==
    LET n == o.contentCheckCount + 1
        counted == [o EXCEPT !.contentCheckCount = n]
    IN  IF n <= FirstContentChecks \/ n % ContentCheckEvery = 0
        THEN OldAddLog(counted, OldMsgContentChecked(n)) ELSE counted
Old_ngAfterViewInit(o) == OldAddLog(o, OldMsgViewInit)
Old_ngAfterViewChecked(o) ==
    LET n == o.viewCheckCount + 1
        counted == [o EXCEPT !.viewCheckCount = n]
    IN  IF n <= FirstViewChecks \/ n % ViewCheckEvery = 0
        THEN OldAddLog(counted, OldMsgViewChecked(n)) ELSE counted
Old_ngOnDestroy(o) ==
    LET logged == OldAddLog(o, OldMsgDestroy)
    IN  [logged EXCEPT !.console = Append(@, OldMsgDestroyed)]
Old_incrementCounter(o) ==
    OldAddLog([o EXCEPT !.counter = @ + 1], OldMsgIncrement(o.counter + 1))

(***************************************************************************)
(* SpecVersions: the two versions driven by the same operations, in any    *)
(* order, MaxOps calls.                                                    *)
(***************************************************************************)
BothChanges ==
    /\ NCalls < MaxOps
    /\ \E changeset \in FreeChangeSets :
          ngOnChanges(changeset) /\ old' = Old_ngOnChanges(old, changeset)
    /\ UNCHANGED <<pc, pending, cycle, parentVars, ref, frame>>
BothInit == NCalls < MaxOps /\ ngOnInit /\ old' = Old_ngOnInit(old)
        /\ UNCHANGED <<pc, pending, cycle, parentVars, ref, frame>>
BothDoCheck == NCalls < MaxOps /\ ngDoCheck /\ old' = Old_ngDoCheck(old)
        /\ UNCHANGED <<pc, pending, cycle, parentVars, ref, frame>>
BothContentInit ==
    NCalls < MaxOps /\ ngAfterContentInit /\ old' = Old_ngAfterContentInit(old)
        /\ UNCHANGED <<pc, pending, cycle, parentVars, ref, frame>>
BothContentChecked ==
    NCalls < MaxOps /\ ngAfterContentChecked /\ old' = Old_ngAfterContentChecked(old)
        /\ UNCHANGED <<pc, pending, cycle, parentVars, ref, frame>>
BothViewInit ==
    NCalls < MaxOps /\ ngAfterViewInit /\ old' = Old_ngAfterViewInit(old)
        /\ UNCHANGED <<pc, pending, cycle, parentVars, ref, frame>>
BothViewChecked ==
    NCalls < MaxOps /\ ngAfterViewChecked /\ old' = Old_ngAfterViewChecked(old)
        /\ UNCHANGED <<pc, pending, cycle, parentVars, ref, frame>>
BothDestroy == NCalls < MaxOps /\ ngOnDestroy /\ old' = Old_ngOnDestroy(old)
        /\ UNCHANGED <<pc, pending, cycle, parentVars, ref, frame>>
BothIncrement ==
    NCalls < MaxOps /\ incrementCounter /\ old' = Old_incrementCounter(old)
        /\ UNCHANGED <<pc, pending, cycle, parentVars, ref, frame>>

NextVersions ==
    \/ BothChanges
    \/ BothInit
    \/ BothDoCheck
    \/ BothContentInit
    \/ BothContentChecked
    \/ BothViewInit
    \/ BothViewChecked
    \/ BothDestroy
    \/ BothIncrement

SpecVersions == Init /\ [][NextVersions]_vars

(***************************************************************************)
(* The reference components of lifecycle-hooks-reference.ts, on the record *)
(* ref: handled and loaded list the calls of handleInputChange and         *)
(* loadUserData with their arguments, console the lines they have written. *)
(***************************************************************************)
\* new SimpleChange(previousValue, currentValue, firstChange)
FirstAware(previous, current, first) ==
    [kind |-> "SimpleChange", previousValue |-> previous, currentValue |-> current,
     firstChange |-> first]

PropUserId == <<"userId">>
RefProps == {PropUserId, <<"data">>}
\* A SimpleChanges object: its keys are distinct, for..in visits them in
\* the order they were added.
RefChangeSets ==
    LET values == {<<Undefined, Str(<<"A">>)>>, <<Str(<<"A">>), Str(<<"B">>)>>,
                   <<Str(<<"B">>), Str(<<"A">>)>>}
        entries == {[propName |-> p, change |-> FirstAware(v[1], v[2], first)] :
                       p \in RefProps, v \in values, first \in BOOLEAN}
    IN  {<<>>} \cup {<<e>> : e \in entries}
               \cup {pair \in {<<e, f>> : e \in entries, f \in entries} :
                         pair[1].propName # pair[2].propName}

\* `${propName} changed from ${change.previousValue} to ${change.currentValue}`
MsgRefChanged(propName, previous, current) ==
    propName \o <<" changed from ">> \o TemplateText(previous) \o <<" to ">>
        \o TemplateText(current)

\* private handleInputChange(propName, value) / private loadUserData(userId)
handleInputChange(r, propName, value) == [r EXCEPT !.handled = Append(@, <<propName, value>>)]
loadUserData(r, userId) == [r EXCEPT !.loaded = Append(@, userId)]

\* A variant of the loop body that reacts to every change, first or not.
RefLoopBodyAlways(r, entry) ==
    LET logged == [r EXCEPT !.console = Append(@,
                       MsgRefChanged(entry.propName, entry.change.previousValue,
                                     entry.change.currentValue))]
    IN  handleInputChange(logged, entry.propName, entry.change.currentValue)

\* LifecycleReferenceComponent.ngOnChanges: the body of the for..in loop
RefLoopBody(r, entry) ==
    LET logged == [r EXCEPT !.console = Append(@,
                       MsgRefChanged(entry.propName, entry.change.previousValue,
                                     entry.change.currentValue))]
    IN  IF ~entry.change.firstChange
        THEN handleInputChange(logged, entry.propName, entry.change.currentValue)
        ELSE logged

RECURSIVE RefLoop(_, _)
RefLoop(r, changeset) ==
    IF changeset = <<>> THEN r
    ELSE RefLoop(RefLoopBody(r, Head(changeset)), Tail(changeset))

\* changes['userId']: the entry under that key, if there is one
Lookup(changeset, propName) ==
    LET at == {i \in 1..Len(changeset) : changeset[i].propName = propName}
    IN  IF at = {} THEN Undefined ELSE changeset[CHOOSE i \in at : TRUE].change

ReferenceChanges ==
    /\ ref.calls < MaxRefCalls
    /\ \E changeset \in RefChangeSets :
          ref' = [RefLoop(ref, changeset) EXCEPT !.changes = changeset,
                                                !.calls = @ + 1,
                                                !.component = "LifecycleReferenceComponent"]
    /\ UNCHANGED <<compVars, console, clock, calls, changes, delivered, result, pc, pending,
                   cycle, parentVars, old, frame>>

ConditionalChanges ==
    /\ ref.calls < MaxRefCalls
    /\ \E changeset \in RefChangeSets :
          LET change == Lookup(changeset, PropUserId)
              after == IF change # Undefined
                       THEN IF ~change.firstChange
                            THEN loadUserData(ref, change.currentValue)
                            ELSE ref
                       ELSE ref
          IN  ref' = [after EXCEPT !.changes = changeset,
                                   !.calls = @ + 1,
                                   !.component = "ConditionalInputComponent"]
    /\ UNCHANGED <<compVars, console, clock, calls, changes, delivered, result, pc, pending,
                   cycle, parentVars, old, frame>>

NextReference == ReferenceChanges \/ ConditionalChanges

SpecReference == Init /\ [][NextReference]_vars

(***************************************************************************)
(* SpecAddLog: addLog statement by statement.  frame is the call under     *)
(* way: the statement it stands before, the operation that made it, its    *)
(* argument, its timestamp, and the buffer length at its start.            *)
(***************************************************************************)
StepMessage(op, n) ==
    CASE op = "ngOnInit" -> MsgInit
      [] op = "ngAfterContentInit" -> MsgContentInit
      [] op = "ngAfterViewInit" -> MsgViewInit
      [] op = "incrementCounter" -> MsgIncrement(n)

\* ngOnChanges with FillProps properties, run as a whole, to fill the buffer
StepFill == frame = NoFrame /\ FillBuffer

\* an operation runs up to its addLog call, and addLog takes the timestamp
StepCall ==
    /\ frame = NoFrame
    /\ NCalls < MaxOps
    /\ \E op \in {"ngOnInit", "ngAfterContentInit", "ngAfterViewInit", "incrementCounter"} :
          /\ counter' = IF op = "incrementCounter" THEN counter + 1 ELSE counter
          /\ frame' = [at |-> "push", op |-> op, message |-> StepMessage(op, counter'),
                       timestamp |-> toLocaleTimeString(clock), before |-> Len(logs)]
          /\ Called(op)
    /\ UNCHANGED <<name, logs, checkCount, contentCheckCount, viewCheckCount, console, clock,
                   changes, delivered, result, pc, pending, cycle, parentVars, old, ref>>

\* this.logs.push(`[${timestamp}] ${message}`)
StepPush ==
    /\ frame.at = "push"
    /\ logs' = Append(logs, Line(frame.timestamp, frame.message))
    /\ frame' = [frame EXCEPT !.at = "log"]
    /\ UNCHANGED <<name, counter, checkCount, contentCheckCount, viewCheckCount, console,
                   clock, calls, changes, delivered, result, pc, pending, cycle, parentVars,
                   old, ref>>

\* console.log(`[${timestamp}] ${message}`)
StepConsole ==
    /\ frame.at = "log"
    /\ console' = Append(console, Line(frame.timestamp, frame.message))
    /\ frame' = [frame EXCEPT !.at = "trim"]
    /\ UNCHANGED <<compVars, clock, calls, changes, delivered, result, pc, pending, cycle,
                   parentVars, old, ref>>

\* A variant of the last statement that shifts whatever the length.
StepTrimAlways ==
    /\ frame.at = "trim"
    /\ logs' = Tail(logs)
    /\ frame' = NoFrame
    /\ result' = "ok"
    /\ UNCHANGED <<name, counter, checkCount, contentCheckCount, viewCheckCount, console,
                   clock, calls, changes, delivered, pc, pending, cycle, parentVars, old, ref>>

\* if (this.logs.length > 50) { this.logs.shift(); }, and the call returns
StepTrim ==
    /\ frame.at = "trim"
    /\ logs' = ShiftIfOver(logs)
    /\ frame' = NoFrame
    /\ result' = "ok"
    /\ UNCHANGED <<name, counter, checkCount, contentCheckCount, viewCheckCount, console,
                   clock, calls, changes, delivered, pc, pending, cycle, parentVars, old, ref>>

NextAddLog ==
    \/ StepFill
    \/ StepCall
    \/ StepPush
    \/ StepConsole
    \/ StepTrim
    \/ Tick

SpecAddLog == Init /\ [][NextAddLog]_vars

(***************************************************************************)
(* Reading the sinks.                                                      *)
(***************************************************************************)
Last(s) == s[Len(s)]
LastN(s, n) == SubSeq(s, Len(s) - n + 1, Len(s))

\* The lines the console received through addLog (they carry a timestamp).
ViaAddLog(line) == Head(line) = "["
AddLogLines == SelectSeq(console, ViaAddLog)
NAppends == Len(AddLogLines)

\* The lines of a sequence that carry the token tok.
Has(line, tok) == \E i \in 1..Len(line) : line[i] = tok
Count(lines, tok) == Cardinality({i \in 1..Len(lines) : Has(lines[i], tok)})

TokDoCheck == "#4. ngDoCheck: Change detection run #"
TokContentChecked == "#6. ngAfterContentChecked: Content checked #"
TokViewChecked == "#8. ngAfterViewChecked: View checked #"

Destroyed == calls["ngOnDestroy"] > 0
IsCall == NCalls' = NCalls + 1
IsCallOf(op) == calls'[op] = calls[op] + 1

(***************************************************************************)
(* C1  After construction and after every completed operation, in any      *)
(* order and any number of times, logs.length is at most 50.               *)
(***************************************************************************)
C1_LogsWithinCap == Len(logs) <= 50

\* the buffer is full and an entry has been evicted
C1_Witness == Len(logs) = 50 /\ NAppends > 50

(***************************************************************************)
(* C2  Eviction is FIFO: after n appends the buffer holds exactly the last *)
(* min(n, 50) appended entries, in the order they were appended.           *)
(***************************************************************************)
C2_Fifo == logs = LastN(AddLogLines, Min(NAppends, 50))

\* two entries have been evicted, by two different calls
C2_Witness == NAppends >= 52 /\ NCalls >= 2

(***************************************************************************)
(* C3  Once ngOnDestroy has been called, any later hook or incrementCounter *)
(* call raises a ProtocolViolation and leaves the buffer unchanged.        *)
(***************************************************************************)
C3_AfterDestroyRejected ==
    [][(Destroyed /\ IsCall) => (result' = "ProtocolViolation" /\ logs' = logs)]_vars

(***************************************************************************)
(* C4  A second ngOnInit call on the same instance is a ProtocolViolation  *)
(* and does not append a second 'initialized' entry.                       *)
(***************************************************************************)
C4_SecondInitRejected ==
    [][(calls["ngOnInit"] >= 1 /\ IsCallOf("ngOnInit"))
        => (result' = "ProtocolViolation" /\ console' = console /\ logs' = logs)]_vars

\* the ngDoCheck entries appended so far
CheckEntries == Count(console, TokDoCheck)

(***************************************************************************)
(* C5, as stated: after N ngDoCheck calls the number of ngDoCheck entries  *)
(* appended is min(N,5) + floor(max(N-5,0)/10).                            *)
(***************************************************************************)
C5_Original ==
    CheckEntries = Min(calls["ngDoCheck"], 5) + (Max(calls["ngDoCheck"] - 5, 0) \div 10)

(***************************************************************************)
(* C5, amended: after N ngDoCheck calls the number of ngDoCheck entries    *)
(* appended is min(N,5) + floor(N/10).                                     *)
(***************************************************************************)
C5_CheckEntries ==
    CheckEntries = Min(calls["ngDoCheck"], 5) + (calls["ngDoCheck"] \div 10)

\* twenty calls: the first five, the tenth and the twentieth are logged
C5_Witness == calls["ngDoCheck"] = 20 /\ CheckEntries = 7

(***************************************************************************)
(* C6  The k-th ngDoCheck call appends exactly one entry if k <= 5 or k is *)
(* a multiple of 10, and nothing otherwise; never more than one entry.     *)
(***************************************************************************)
C6_CheckSampling ==
    [][IsCallOf("ngDoCheck") =>
        LET k == calls'["ngDoCheck"]
        IN  IF k <= 5 \/ k % 10 = 0
            THEN /\ console' = Append(console, Last(console'))
                 /\ Last(logs') = Last(console')
                 /\ Last(logs') = Line(toLocaleTimeString(clock), MsgDoCheck(k))
                 /\ Count(logs', TokDoCheck) = Count(logs, TokDoCheck) + 1
            ELSE console' = console /\ logs' = logs]_vars

\* the tenth call has been logged after the sixth to ninth were not
C6_Witness ==
    /\ calls["ngDoCheck"] = 10
    /\ Has(Last(logs), TokDoCheck)
    /\ Count(logs, TokDoCheck) = 6

(***************************************************************************)
(* C7  ngAfterContentChecked and ngAfterViewChecked each log their k-th    *)
(* call iff k <= 3 or k is a multiple of 10, and the three sampling        *)
(* counters are independent: a call to one of the three hooks changes      *)
(* neither the counter nor the logging decision of the other two.          *)
(***************************************************************************)
LogsExactly(tok, logged) ==
    IF logged
    THEN /\ console' = Append(console, Last(console'))
         /\ logs' = Append(logs, Last(console'))
         /\ Has(Last(logs'), tok)
    ELSE console' = console /\ logs' = logs

C7_IndependentSampling ==
    [][/\ IsCallOf("ngAfterContentChecked") =>
            /\ LogsExactly(TokContentChecked,
                           calls'["ngAfterContentChecked"] <= 3
                           \/ calls'["ngAfterContentChecked"] % 10 = 0)
            /\ contentCheckCount' = contentCheckCount + 1
            /\ UNCHANGED <<checkCount, viewCheckCount>>
       /\ IsCallOf("ngAfterViewChecked") =>
            /\ LogsExactly(TokViewChecked,
                           calls'["ngAfterViewChecked"] <= 3
                           \/ calls'["ngAfterViewChecked"] % 10 = 0)
            /\ viewCheckCount' = viewCheckCount + 1
            /\ UNCHANGED <<checkCount, contentCheckCount>>
       /\ IsCallOf("ngDoCheck") =>
            /\ checkCount' = checkCount + 1
            /\ UNCHANGED <<contentCheckCount, viewCheckCount>>
       /\ checkCount = calls["ngDoCheck"]
       /\ contentCheckCount = calls["ngAfterContentChecked"]
       /\ viewCheckCount = calls["ngAfterViewChecked"]]_vars

\* the view hook has logged its tenth call while the other two counters
\* stand elsewhere
C7_Witness ==
    /\ viewCheckCount = 10
    /\ Has(Last(logs), TokViewChecked)
    /\ checkCount = 1
    /\ contentCheckCount = 0

Sampled(n, first) == Min(n, first) + (n \div 10)

\* the constructor and every call that passes its hook's filter
Passing ==
    1 + calls["ngOnChanges"] + calls["ngOnInit"] + Sampled(calls["ngDoCheck"], 5)
      + calls["ngAfterContentInit"] + Sampled(calls["ngAfterContentChecked"], 3)
      + calls["ngAfterViewInit"] + Sampled(calls["ngAfterViewChecked"], 3)
      + calls["ngOnDestroy"] + calls["incrementCounter"]

(***************************************************************************)
(* C8, as stated: for every sequence of notifications delivered in host    *)
(* order, the buffer length equals min(50, number of notifications that    *)
(* pass the sampling filter), each passing notification counting once.     *)
(***************************************************************************)
C8_Original == Len(logs) = Min(50, Passing)

(***************************************************************************)
(* C8, amended: the buffer length equals min(50, number of entries of the  *)
(* notifications that pass the sampling filter), a passing notification    *)
(* counting once, except an ngOnChanges with k properties, which counts    *)
(* k + 1.                                                                  *)
(***************************************************************************)
C8_LengthIsPassingEntries == Len(logs) = Min(50, Passing + delivered)

\* both sides are capped: a whole creation sequence on top of a full buffer
C8_Witness ==
    /\ pc = "idle"
    /\ Passing + delivered > 50
    /\ calls["ngAfterViewChecked"] >= 4

Contains(line, sub) ==
    \E i \in 0..(Len(line) - Len(sub)) : SubSeq(line, i + 1, i + Len(sub)) = sub

TokChange == "#2. ngOnChanges: - "
IsSummaryLine(line) == line = Line(toLocaleTimeString(clock), MsgChanges)
IsChangeLine(line, propName) == Contains(line, <<"] ", TokChange>> \o propName \o <<": ">>)

WellFormed(changeset) == \A i \in 1..Len(changeset) : changeset[i].change.kind = "SimpleChange"
OnePropCall == IsCallOf("ngOnChanges") /\ Len(changes') = 1 /\ WellFormed(changes')

\* the buffer after the lines have been appended to it one by one
Appended(lines) == LastN(logs \o lines, Min(Len(logs) + Len(lines), 50))

Escapes(v) == v.type = "string" /\ \E i \in 1..Len(v.chars) : v.chars[i] \in {Quote, Backslash}

(***************************************************************************)
(* C9, as stated: ngOnChanges with a changeset of exactly one property     *)
(* (previous A, current B) appends exactly two entries: first the          *)
(* per-property line containing both A and B, then the summary line.       *)
(***************************************************************************)
C9_Original ==
    [][OnePropCall =>
        LET A == changes'[1].change.previousValue
            B == changes'[1].change.currentValue
            first == console'[Len(console') - 1]
            second == console'[Len(console')]
        IN  /\ Len(console') = Len(console) + 2
            /\ IsChangeLine(first, changes'[1].propName)
            /\ Contains(first, TemplateText(A))
            /\ Contains(first, TemplateText(B))
            /\ IsSummaryLine(second)
            /\ logs' = Appended(<<first, second>>)]_vars

(***************************************************************************)
(* C9, amended: it appends exactly two entries: first the summary line,    *)
(* then the per-property line, which contains JSON.stringify(A) and        *)
(* JSON.stringify(B), and so A and B themselves when they are undefined or *)
(* strings without a character that JSON escapes.                          *)
(***************************************************************************)
C9_SummaryThenProperty ==
    [][OnePropCall =>
        LET A == changes'[1].change.previousValue
            B == changes'[1].change.currentValue
            first == console'[Len(console') - 1]
            second == console'[Len(console')]
        IN  /\ Len(console') = Len(console) + 2
            /\ SubSeq(console', 1, Len(console)) = console
            /\ IsSummaryLine(first)
            /\ IsChangeLine(second, changes'[1].propName)
            /\ Contains(second, TemplateText(JSONStringify(A)))
            /\ Contains(second, TemplateText(JSONStringify(B)))
            /\ ~Escapes(A) => Contains(second, TemplateText(A))
            /\ ~Escapes(B) => Contains(second, TemplateText(B))
            /\ logs' = Appended(<<first, second>>)
            /\ result' = "ok"]_vars

\* a one-property call whose values need escaping, on a full buffer
C9_Witness ==
    /\ calls["ngOnChanges"] = 2
    /\ Len(changes) = 1 /\ WellFormed(changes)
    /\ changes[1].change.previousValue = Str(<<"A", Quote>>)
    /\ changes[1].change.currentValue = Str(<<"B">>)
    /\ IsChangeLine(Last(logs), PropName(1))
    /\ NAppends > 50

(***************************************************************************)
(* C10  ngOnChanges with a changeset of k properties appends exactly k     *)
(* per-property entries, one per property and in the iteration order of    *)
(* the changeset, plus exactly one summary entry; no property is skipped.  *)
(***************************************************************************)
C10_OnePerProperty ==
    [][(IsCallOf("ngOnChanges") /\ WellFormed(changes')) =>
        LET k == Len(changes')
            new == SubSeq(console', Len(console) + 1, Len(console'))
        IN  /\ Len(console') = Len(console) + k + 1
            /\ SubSeq(console', 1, Len(console)) = console
            /\ Count(new, MsgChanges[1]) = 1
            /\ Count(new, TokChange) = k
            /\ \A i \in 1..k : IsChangeLine(new[i + 1], changes'[i].propName)
            /\ logs' = Appended(new)
            /\ result' = "ok"]_vars

\* two properties delivered with "p2" before "name", the first a first change
C10_Witness ==
    /\ Len(changes) = 2 /\ WellFormed(changes)
    /\ changes[1].propName = PropName(2)
    /\ changes[2].propName = PropName(1)
    /\ changes[1].change.previousValue = Undefined
    /\ IsChangeLine(logs[Len(logs) - 1], PropName(2))
    /\ IsChangeLine(Last(logs), PropName(1))

\* The message of a line: what follows its timestamp.
MessageOf(line) ==
    LET i == CHOOSE j \in 1..Len(line) : line[j] = "] " /\ \A h \in 1..(j - 1) : line[h] # "] "
    IN  SubSeq(line, i + 1, Len(line))
Messages(lines) == [i \in 1..Len(lines) |-> MessageOf(lines[i])]

\* the scenario has run to its end with seven ngDoCheck calls
ScenarioDone ==
    /\ calls = [op \in OpNames |-> CASE op \in {"ngOnChanges", "ngOnInit", "ngOnDestroy"} -> 1
                                     [] op = "ngDoCheck" -> 7
                                     [] OTHER -> 0]
    /\ Len(changes) = 1 /\ WellFormed(changes)
ScenarioChecksLogged == [i \in 1..5 |-> MsgDoCheck(i)]
ScenarioPropertyLine ==
    MsgChange(changes[1].propName, JSONStringify(changes[1].change.previousValue),
              JSONStringify(changes[1].change.currentValue))

(***************************************************************************)
(* C11, as stated: the scenario construct, ngOnChanges with one property,  *)
(* ngOnInit, ngDoCheck x7, ngOnDestroy leaves exactly 10 buffer entries in *)
(* the order: constructor, per-property line, summary line, ngOnInit, the  *)
(* ngDoCheck entries of runs 1..5, ngOnDestroy.                            *)
(***************************************************************************)
C11_Original ==
    ScenarioDone =>
        /\ Len(logs) = 10
        /\ Messages(logs) = <<MsgConstructor, ScenarioPropertyLine, MsgChanges, MsgInit>>
                             \o ScenarioChecksLogged \o <<MsgDestroy>>

(***************************************************************************)
(* C11, amended: the scenario leaves exactly 10 buffer entries in the      *)
(* order: constructor, summary line, per-property line, ngOnInit, the      *)
(* ngDoCheck entries of runs 1..5 (runs 6 and 7 suppressed), ngOnDestroy.  *)
(***************************************************************************)
C11_ScenarioEntries ==
    ScenarioDone =>
        /\ Len(logs) = 10
        /\ Messages(logs) = <<MsgConstructor, MsgChanges, ScenarioPropertyLine, MsgInit>>
                             \o ScenarioChecksLogged \o <<MsgDestroy>>
        /\ logs = AddLogLines

\* the scenario is over, and time has passed while it ran
C11_Witness ==
    /\ ScenarioDone
    /\ Has(Last(logs), MsgDestroy[1])
    /\ Head(logs) # Line(toLocaleTimeString(clock), MsgConstructor)

Unknown == <<"u", "n", "k", "n", "o", "w", "n">>
Malformed(entry) ==
    \/ entry.change.kind = "null"
    \/ entry.change.previousValue.type = "undefined"
    \/ entry.change.currentValue.type = "undefined"

(***************************************************************************)
(* C12  ngOnChanges with a malformed changeset entry (a missing previous   *)
(* or current field, or a null/undefined entry) does not abort: the call   *)
(* returns normally, every property of the changeset gets its line, and    *)
(* the line of a malformed entry shows the missing value as "unknown".     *)
(***************************************************************************)
C12_MalformedTolerated ==
    [][IsCallOf("ngOnChanges") =>
        LET k == Len(changes')
            new == SubSeq(console', Len(console) + 1, Len(console'))
        IN  /\ result' = "ok"
            /\ Len(new) = k + 1
            /\ \A i \in 1..k :
                  /\ IsChangeLine(new[i + 1], changes'[i].propName)
                  /\ Malformed(changes'[i]) => Contains(new[i + 1], Unknown)]_vars

\* The per-property lines between the first summary line and what follows
\* them in the lines ls.
FirstProps(ls) ==
    IF \E i \in 3..Len(ls) : ~Has(ls[i], TokChange)
    THEN (CHOOSE i \in 3..Len(ls) :
              ~Has(ls[i], TokChange) /\ \A h \in 3..(i - 1) : Has(ls[h], TokChange)) - 3
    ELSE Max(Len(ls) - 2, 0)
AfterFirstChanges ==
    <<MsgInit, MsgDoCheck(1), MsgContentInit, MsgContentChecked(1), MsgViewInit,
      MsgViewChecked(1)>>
CreationDone == calls["ngAfterViewChecked"] >= 1

(***************************************************************************)
(* C13  When the host creates an instance with a bound input, the entries  *)
(* appear in this order: constructor, ngOnChanges (summary, then the name  *)
(* line and the lines of any further input), ngOnInit, ngDoCheck #1,       *)
(* ngAfterContentInit, ngAfterContentChecked #1, ngAfterViewInit,          *)
(* ngAfterViewChecked #1; with the one input of the parent's template      *)
(* these nine entries are the buffer when the creation is over.            *)
(***************************************************************************)
C13_CreationOrder ==
    LET ls == AddLogLines
        n == Len(ls)
        k == FirstProps(ls)
    IN  /\ MessageOf(ls[1]) = MsgConstructor
        /\ n >= 2 => MessageOf(ls[2]) = MsgChanges
        /\ n >= 3 => k >= 1 /\ IsChangeLine(ls[3], PropName(1))
        /\ \A j \in 1..6 : (2 + k + j <= n) => MessageOf(ls[2 + k + j]) = AfterFirstChanges[j]
        /\ CreationDone => n >= k + 8
        /\ (CreationDone /\ cycle.n = 1 /\ pc = "idle" /\ k = 1) =>
                (Len(logs) = 9 /\ logs = ls)

\* the creation is over, with the one input of the parent's template
C13_Witness ==
    /\ pc = "idle" /\ cycle.n = 1
    /\ Len(logs) = 9
    /\ Has(logs[4], MsgInit[1])
    /\ Has(Last(logs), TokViewChecked)

Lifetime(tok) == Count(console, tok)

(***************************************************************************)
(* C14  In every host-driven run of one instance the entries of ngOnInit,  *)
(* ngAfterContentInit, ngAfterViewInit and ngOnDestroy are each appended   *)
(* at most once, and exactly once by the time the instance is destroyed;   *)
(* ngDoCheck, ngAfterContentChecked and ngAfterViewChecked are each called *)
(* once per change-detection cycle.                                        *)
(***************************************************************************)
C14_OncePerLifetime ==
    /\ \A op \in {"ngOnInit", "ngAfterContentInit", "ngAfterViewInit", "ngOnDestroy"} :
          calls[op] <= 1
    /\ Lifetime(MsgInit[1]) = calls["ngOnInit"]
    /\ Lifetime(MsgContentInit[1]) = calls["ngAfterContentInit"]
    /\ Lifetime(MsgViewInit[1]) = calls["ngAfterViewInit"]
    /\ Lifetime(MsgDestroy[1]) = calls["ngOnDestroy"]
    /\ pc = "destroyed" =>
          \A op \in {"ngOnInit", "ngAfterContentInit", "ngAfterViewInit", "ngOnDestroy"} :
              calls[op] = 1
    /\ pc \in {"idle", "destroyed"} =>
          /\ calls["ngDoCheck"] = cycle.n
          /\ calls["ngAfterContentChecked"] = cycle.n
          /\ calls["ngAfterViewChecked"] = cycle.n
    /\ calls["ngDoCheck"] \in {cycle.n - 1, cycle.n}
    /\ calls["ngAfterContentChecked"] \in {cycle.n - 1, cycle.n}
    /\ calls["ngAfterViewChecked"] \in {cycle.n - 1, cycle.n}

\* an instance destroyed after three cycles, one of them on a new input
C14_Witness ==
    /\ pc = "destroyed"
    /\ cycle.n >= 3
    /\ calls["ngOnChanges"] >= 2

(***************************************************************************)
(* C15  ngOnDestroy appends exactly one entry, which is the last element   *)
(* of the buffer when the call returns, whether or not the buffer was      *)
(* full; once the host has destroyed the instance, nothing more is         *)
(* appended to its buffer.                                                 *)
(***************************************************************************)
C15_DestroyIsLast ==
    [][/\ IsCallOf("ngOnDestroy") =>
            LET line == Line(toLocaleTimeString(clock), MsgDestroy)
            IN  /\ console' = console \o <<line, MsgDestroyed>>
                /\ logs' = Appended(<<line>>)
                /\ Last(logs') = line
                /\ Len(logs') = Min(Len(logs) + 1, 50)
                /\ result' = "ok"
       /\ pc = "destroyed" =>
            /\ ~IsCall
            /\ UNCHANGED <<logs, console, pc>>]_vars

\* an instance destroyed on a full buffer, and time has passed since
C15_Witness ==
    /\ pc = "destroyed"
    /\ NAppends > 51
    /\ Has(Last(logs), MsgDestroy[1])
    /\ Last(logs) # Line(toLocaleTimeString(clock), MsgDestroy)

(***************************************************************************)
(* C16  Each incrementCounter call increases counter by exactly 1 and      *)
(* appends exactly one entry, which names the new value of counter; no     *)
(* call is suppressed, and checkCount, contentCheckCount and               *)
(* viewCheckCount are left as they are.                                    *)
(***************************************************************************)
C16_IncrementLogged ==
    [][IsCallOf("incrementCounter") =>
        LET line == Line(toLocaleTimeString(clock), MsgIncrement(counter + 1))
        IN  /\ counter' = counter + 1
            /\ console' = Append(console, line)
            /\ logs' = Appended(<<line>>)
            /\ Last(logs') = line
            /\ UNCHANGED <<checkCount, contentCheckCount, viewCheckCount, name>>
            /\ result' = "ok"]_vars

\* the eleventh click, after seven ngDoCheck calls
C16_Witness ==
    /\ counter = 11
    /\ checkCount = 7
    /\ Last(logs) = Line(toLocaleTimeString(clock), MsgIncrement(11))

\* The lines the console has received since the cycle under way started.
SinceCycleStart == SubSeq(console, cycle.mark + 1, Len(console))
IsChangesEntry(line) == Has(line, MsgChanges[1]) \/ Has(line, TokChange)
InputChanged(entry) ==
    /\ entry.change.kind = "SimpleChange"
    /\ entry.change.previousValue # entry.change.currentValue

(***************************************************************************)
(* C17  A click on the button and the cycle it starts run ngDoCheck,       *)
(* ngAfterContentChecked and ngAfterViewChecked (each counter advances by  *)
(* one) and append no ngOnChanges entry; ngOnChanges entries are appended  *)
(* only in a cycle started by a new value of the bound input, and the      *)
(* changeset delivered names componentName with a changed value.           *)
(***************************************************************************)
C17_ClickWithoutChanges ==
    /\ cycle.trigger = "click" =>
          /\ MessageOf(SinceCycleStart[1]) = MsgIncrement(counter)
          /\ pc = "idle" =>
                /\ checkCount = cycle.checkCount + 1
                /\ contentCheckCount = cycle.contentCheckCount + 1
                /\ viewCheckCount = cycle.viewCheckCount + 1
    /\ cycle.trigger \in {"click", "event"} =>
          \A i \in 1..Len(SinceCycleStart) : ~IsChangesEntry(SinceCycleStart[i])
    /\ (cycle.trigger \in {"create", "input"} /\ pc # "ngOnChanges") =>
          IsChangesEntry(SinceCycleStart[1])
    /\ calls["ngOnChanges"] >= 1 =>
          /\ changes[1].propName = PropName(1)
          /\ \A i \in 1..Len(changes) : InputChanged(changes[i])
          /\ pc # "ngOnChanges" => Str(name) = changes[1].change.currentValue

\* a click cycle has run to its end, after a cycle on a new input
C17_Witness ==
    /\ cycle.trigger = "click"
    /\ pc = "idle"
    /\ counter = 1
    /\ calls["ngOnChanges"] = 2

\* the buffer is the end of what the console received through addLog
SuffixOfSink == Len(logs) <= NAppends /\ logs = LastN(AddLogLines, Len(logs))
\* what a step adds to the console through addLog is what it appends to the
\* buffer, line by line, and the console loses nothing
SinkStep ==
    LET new == SubSeq(console', Len(console) + 1, Len(console'))
    IN  /\ Len(console') >= Len(console)
        /\ SubSeq(console', 1, Len(console)) = console
        /\ logs' = Appended(SelectSeq(new, ViaAddLog))

(***************************************************************************)
(* C18  Every line appended to the buffer is also written to the console,  *)
(* with the same text and in the same order, and the console keeps it      *)
(* after the buffer has evicted it: at all times the buffer is a           *)
(* contiguous suffix of the lines the console received through addLog.     *)
(***************************************************************************)
C18_BufferIsSuffixOfSink == []SuffixOfSink /\ [][SinkStep]_vars

\* the console holds lines the buffer has evicted, and one that never went
\* through addLog
C18_Witness ==
    /\ NAppends > Len(logs) + 1
    /\ Len(console) > NAppends
    /\ Head(logs) # Head(console)

\* the parent's template holds a child instance
ChildAlive == pc # "destroyed" /\ ~(pc = "ngIf" /\ showComponent)

\* The buffer of the current instance holds its own entries only.
OwnEntriesOnly ==
    /\ Len(logs) = Min(50, Passing + delivered)
    /\ Count(logs, MsgDestroy[1]) = calls["ngOnDestroy"]
    /\ Count(logs, MsgInit[1]) = calls["ngOnInit"]
    /\ Len(logs) < 50 =>
          /\ MessageOf(Head(logs)) = MsgConstructor
          /\ Count(logs, MsgConstructor[1]) = 1
          /\ Count(logs, TokDoCheck) = Min(checkCount, 5)
          /\ checkCount >= 1 => \E i \in 1..Len(logs) : MessageOf(logs[i]) = MsgDoCheck(1)

\* Hiding the child makes one ngOnDestroy call, on the instance shown.
HidingDestroys ==
    /\ calls["ngOnDestroy"] <= 1
    /\ Count(console, MsgDestroy[1]) = instances - (IF ChildAlive THEN 1 ELSE 0)
    /\ pc = "destroyed" => (~showComponent /\ calls["ngOnDestroy"] = 1)
    /\ pc \notin {"ngIf", "destroyed"} => showComponent

\* Showing the child again constructs a new instance, whose checks start at 1.
ShowingCreates ==
    /\ (showComponent' /\ ~showComponent) => (pc = "destroyed" /\ pc' = "ngIf")
    /\ (pc = "ngIf" /\ showComponent /\ pc' # "ngIf") =>
          /\ instances' = instances + 1
          /\ logs' = <<Line(toLocaleTimeString(clock), MsgConstructor)>>
          /\ console' = Append(console, logs'[1])
          /\ counter' = 0
          /\ checkCount' = 0 /\ contentCheckCount' = 0 /\ viewCheckCount' = 0
          /\ pc' = "created"
    /\ (checkCount = 0 /\ checkCount' # 0) =>
          Last(console') = Line(toLocaleTimeString(clock), MsgDoCheck(1))
    /\ (~showComponent' /\ showComponent) => (ChildAlive /\ calls["ngOnDestroy"] = 0)
    /\ (pc = "ngIf" /\ ~showComponent /\ pc' # "ngIf") =>
          (IsCallOf("ngOnDestroy") /\ pc' = "destroyed")

(***************************************************************************)
(* C19  Toggling the parent from shown to hidden destroys the current      *)
(* child with exactly one ngOnDestroy call; toggling back creates a new    *)
(* instance: its buffer holds no entry of the instance before, the first   *)
(* entry is the constructor entry, counter is 0 and the check numbering    *)
(* starts again at #1.                                                     *)
(***************************************************************************)
C19_ToggleRecreates == [](HidingDestroys /\ OwnEntriesOnly) /\ [][ShowingCreates]_vars

\* the second instance has run its first cycles after the first one had run
\* its own and was destroyed
C19_Witness ==
    /\ instances = 2
    /\ pc = "idle"
    /\ checkCount = 2
    /\ Count(console, TokDoCheck) = 4
    /\ Count(console, MsgDestroy[1]) = 1
    /\ Len(logs) < 50

(***************************************************************************)
(* C20  Immediately after construction the buffer holds exactly one entry, *)
(* the 'instance created' entry, counter is 0 and the three check counters *)
(* are 0; the construction does not fail.                                  *)
(***************************************************************************)
C20_AfterConstruction ==
    pc = "created" =>
        /\ Len(logs) = 1
        /\ MessageOf(logs[1]) = MsgConstructor
        /\ Last(console) = logs[1]
        /\ counter = 0
        /\ checkCount = 0 /\ contentCheckCount = 0 /\ viewCheckCount = 0
        /\ result = "ok"

\* a second instance has just been constructed, after the clock has moved
C20_Witness ==
    /\ pc = "created"
    /\ instances = 2
    /\ logs = <<Line(toLocaleTimeString(1), MsgConstructor)>>

\* the entries of a hook among the lines the cycle under way has written
InCycle(tok) == Count(SinceCycleStart, tok)

(***************************************************************************)
(* C21  With the hooks delivered in host order, at the end of every cycle  *)
(* checkCount = contentCheckCount = viewCheckCount, and at every point     *)
(* inside a cycle checkCount >= contentCheckCount >= viewCheckCount >=     *)
(* checkCount - 1; from cycle 10 on the three hooks log on the same        *)
(* cycles, the multiples of 10.                                            *)
(***************************************************************************)
C21_CountersInStep ==
    /\ checkCount >= contentCheckCount
    /\ contentCheckCount >= viewCheckCount
    /\ viewCheckCount >= checkCount - 1
    /\ pc = "idle" =>
          /\ checkCount = contentCheckCount
          /\ contentCheckCount = viewCheckCount
          /\ checkCount = cycle.n
          /\ cycle.n >= 10 =>
                LET logged == IF cycle.n % 10 = 0 THEN 1 ELSE 0
                IN  /\ InCycle(TokDoCheck) = logged
                    /\ InCycle(TokContentChecked) = logged
                    /\ InCycle(TokViewChecked) = logged
                    /\ Len(SinceCycleStart) = 3 * logged

\* the twentieth cycle has ended, with one entry of each of the three hooks
C21_Witness ==
    /\ pc = "idle"
    /\ cycle.n = 20
    /\ viewCheckCount = 20
    /\ Len(SinceCycleStart) = 3

\* The number a sequence of decimal digits spells.
DigitValue(c) == CHOOSE d \in 0..9 : DigitChar(d) = c
RECURSIVE Number(_)
Number(ds) == IF ds = <<>> THEN 0
              ELSE 10 * Number(SubSeq(ds, 1, Len(ds) - 1)) + DigitValue(Last(ds))
\* The run number a check entry of the hook with token tok carries.
RunNumber(line, tok) ==
    LET i == CHOOSE j \in 1..Len(line) : line[j] = tok
    IN  Number(SubSeq(line, i + 1, Len(line)))
\* The run numbers of the entries of that hook in the lines, oldest first.
RunNumbers(lines, tok) ==
    LET own == SelectSeq(lines, LAMBDA line : Has(line, tok))
    IN  [i \in 1..Len(own) |-> RunNumber(own[i], tok)]
Increasing(ns) == \A i \in 1..(Len(ns) - 1) : ns[i] < ns[i + 1]
\* the call of op, if it wrote an entry, wrote its own ordinal
WritesOrdinal(op, tok) ==
    (IsCallOf(op) /\ console' # console) =>
        /\ Has(Last(console'), tok)
        /\ RunNumber(Last(console'), tok) = calls'[op]
        /\ Last(logs') = Last(console')
CountersCountCalls ==
    /\ checkCount = calls["ngDoCheck"]
    /\ contentCheckCount = calls["ngAfterContentChecked"]
    /\ viewCheckCount = calls["ngAfterViewChecked"]
    /\ Increasing(RunNumbers(logs, TokDoCheck))
    /\ Increasing(RunNumbers(logs, TokContentChecked))
    /\ Increasing(RunNumbers(logs, TokViewChecked))

(***************************************************************************)
(* C22  Each check counter counts every call of its hook, logged or not:   *)
(* checkCount is the number of ngDoCheck calls so far, the run number of   *)
(* a logged entry is the ordinal of its call, and the run numbers of the   *)
(* ngDoCheck entries in the buffer increase strictly from oldest to        *)
(* newest; likewise for the content and the view counter.                  *)
(***************************************************************************)
C22_CountersAreOrdinals ==
    /\ []CountersCountCalls
    /\ [][/\ WritesOrdinal("ngDoCheck", TokDoCheck)
          /\ WritesOrdinal("ngAfterContentChecked", TokContentChecked)
          /\ WritesOrdinal("ngAfterViewChecked", TokViewChecked)]_vars

\* the twentieth ngDoCheck call is in the buffer after suppressed ones
C22_Witness ==
    /\ checkCount = 20
    /\ RunNumbers(logs, TokDoCheck) = <<1, 2, 3, 4, 5, 10, 20>>

(***************************************************************************)
(* C23  The buffer length never decreases from one completed operation to  *)
(* the next and is never 0 after construction: it grows by the number of   *)
(* appends until it reaches 50 and then stays 50.                          *)
(***************************************************************************)
C23_LengthMonotone ==
    /\ [](Len(logs) >= 1)
    /\ [][/\ Len(logs') >= Len(logs)
          /\ Len(logs') = Min(50, Len(logs) + (NAppends' - NAppends))
          /\ Len(logs) = 50 => Len(logs') = 50]_vars

\* three calls, the first of which filled the buffer to 50 and the later
\* ones appended to the full buffer
C23_Witness ==
    /\ NCalls = 3
    /\ Len(logs) = 50
    /\ NAppends = 52
    /\ calls["ngOnChanges"] = 1

(***************************************************************************)
(* C24  No lifecycle hook changes counter or name: after any sequence of   *)
(* operations counter is the number of incrementCounter calls made on the  *)
(* instance, and it never decreases.                                       *)
(***************************************************************************)
C24_HooksLeaveCounter ==
    /\ [](counter = calls["incrementCounter"])
    /\ [][/\ (IsCall /\ ~IsCallOf("incrementCounter")) => UNCHANGED <<counter, name>>
          /\ counter' >= counter]_vars

\* a click, then two hooks
C24_Witness ==
    /\ counter = 1
    /\ NCalls = 3
    /\ calls["ngOnInit"] = 1
    /\ Has(Last(logs), MsgInit[1])

(***************************************************************************)
(* C25  ngOnChanges is not atomic with respect to eviction: each of its    *)
(* k + 1 appends evicts on its own, so on a full buffer the call evicts    *)
(* the k + 1 oldest entries, and with k >= 50 the summary line appended at *)
(* the start of the call is itself evicted before the call returns.        *)
(***************************************************************************)
C25_EvictsPerAppend ==
    [][(IsCallOf("ngOnChanges") /\ WellFormed(changes')) =>
        LET k == Len(changes')
            new == SubSeq(console', Len(console) + 1, Len(console'))
        IN  /\ Len(new) = k + 1
            /\ new[1] = Line(toLocaleTimeString(clock), MsgChanges)
            /\ Len(logs') = Min(50, Len(logs) + k + 1)
            /\ logs' = Appended(new)
            /\ (Len(logs) = 50 /\ k < 50) => logs' = SubSeq(logs, k + 2, 50) \o new
            /\ k >= 50 =>
                  /\ logs' = LastN(new, 50)
                  /\ \A i \in 1..Len(logs') : ~Has(logs'[i], MsgChanges[1])]_vars

\* a changeset of 50 properties on a full buffer: no summary line is left
C25_Witness ==
    /\ calls["ngOnChanges"] = 2
    /\ Len(changes) = 50
    /\ NAppends > 100
    /\ Count(logs, MsgChanges[1]) = 0
    /\ Count(logs, TokChange) = 50

\* the constructor entry and the ngOnInit entry have left the buffer
Aged == Count(logs, MsgConstructor[1]) = 0 /\ Count(logs, MsgInit[1]) = 0
\* an entry of a sampled check, or of a hook that runs after ngOnInit
IsLaterEntry(line) ==
    \/ Has(line, TokDoCheck) \/ Has(line, TokContentChecked) \/ Has(line, TokViewChecked)
    \/ Has(line, MsgContentInit[1]) \/ Has(line, MsgViewInit[1])
OnlyLaterEntries == \A i \in 1..Len(logs) : IsLaterEntry(logs[i])
\* with the one bound input, sampling keeps the constructor entry in the
\* buffer for more than a hundred cycles
SlowedDown == (delivered = 1 /\ cycle.n < 120) => Count(logs, MsgConstructor[1]) = 1

(***************************************************************************)
(* C26  If the host keeps running change-detection cycles on a live        *)
(* instance, the constructor entry and the ngOnInit entry are eventually   *)
(* evicted from the buffer, and from then on the buffer holds only sampled *)
(* check entries and entries of later events; sampling slows this down     *)
(* but does not prevent it.                                                *)
(***************************************************************************)
C26_EventuallyEvicted == <>[](Aged /\ OnlyLaterEntries) /\ []SlowedDown

\* the 130th cycle has pushed the ngOnInit entry out
C26_Witness ==
    /\ delivered = 1
    /\ cycle.n = 130
    /\ Aged
    /\ Len(logs) = 50
    /\ Has(Head(logs), TokDoCheck)

(***************************************************************************)
(* The two versions side by side.                                          *)
(***************************************************************************)
\* The first token of a message of the current version without its "#n. ".
Unprefixed(tok) ==
    CASE tok = "#1. Constructor: Component instance created" ->
             "Constructor: Component instance created"
      [] tok = "#2. ngOnChanges: Input properties changed" ->
             "ngOnChanges: Input properties changed"
      [] tok = "#2. ngOnChanges: - " -> "ngOnChanges: - "
      [] tok = "#3. ngOnInit: Component initialized (called once)" ->
             "ngOnInit: Component initialized (called once)"
      [] tok = "#4. ngDoCheck: Change detection run #" -> "ngDoCheck: Change detection run #"
      [] tok = "#5. ngAfterContentInit: Content projection initialized (called once)" ->
             "ngAfterContentInit: Content projection initialized (called once)"
      [] tok = "#6. ngAfterContentChecked: Content checked #" ->
             "ngAfterContentChecked: Content checked #"
      [] tok = "#7. ngAfterViewInit: View initialized (called once)" ->
             "ngAfterViewInit: View initialized (called once)"
      [] tok = "#8. ngAfterViewChecked: View checked #" -> "ngAfterViewChecked: View checked #"
      [] tok = "#9. ngOnDestroy: Component is being destroyed" ->
             "ngOnDestroy: Component is being destroyed"
      [] OTHER -> tok

\* The same, with the label of a per-property line replaced by the two
\* spaces of indentation the earlier version writes.
Relabelled(tok) == IF tok = "#2. ngOnChanges: - " THEN "  - " ELSE Unprefixed(tok)

\* line with the first token of its message rewritten by rewrite.
Rewritten(line, rewrite(_)) ==
    LET i == Len(line) - Len(MessageOf(line)) + 1
    IN  [line EXCEPT ![i] = rewrite(line[i])]

OldAppends == Cardinality({i \in 1..Len(old.console) : old.console[i] # OldMsgDestroyed})

SameShape ==
    /\ old.counter = counter
    /\ old.checkCount = checkCount
    /\ old.contentCheckCount = contentCheckCount
    /\ old.viewCheckCount = viewCheckCount
    /\ old.result = result
    /\ Len(old.logs) = Len(logs)
    /\ OldAppends = NAppends

PropertyLineKept == \E i \in 1..Len(logs) : Has(logs[i], TokChange)

\* C27 as stated: the two versions, driven by the same operations, keep
\* equal counters, append and evict in step, and every buffer entry of the
\* current version is the earlier version's entry with a "#n. " prefix added.
C27_OnlyPrefixesDiffer ==
    /\ SameShape
    /\ \A i \in 1..Len(logs) : Rewritten(logs[i], Unprefixed) = old.logs[i]

\* C27, amended: the two versions, driven by the same operations, keep equal
\* counters and outcomes, append the same number of entries and hold buffers
\* of equal length after every step; entry by entry the buffers differ only
\* in the first part of the message, which is the earlier text with a
\* "#n. " prefix, except on a per-property line, where the current
\* "#2. ngOnChanges: - " stands for the earlier "  - ".
C27_EquivalentUpToText ==
    /\ SameShape
    /\ \A i \in 1..Len(logs) : Rewritten(logs[i], Relabelled) = old.logs[i]

C27_Witness ==
    /\ Len(logs) = MaxLogs
    /\ NAppends > MaxLogs
    /\ PropertyLineKept
    /\ checkCount = 1
    /\ old.logs # logs

(***************************************************************************)
(* The parent's flag and the child.                                        *)
(***************************************************************************)
Toggles == Count(console, "Component ")
Constructions == Count(console, MsgConstructor[1])
Destructions == Count(console, MsgDestroy[1])
ChildrenAlive == Constructions - Destructions
IsToggle == Len(console') = Len(console) + 1 /\ Has(Last(console'), "Component ")
\* The host has brought the view up to date with showComponent.
ViewUpToDate == pc # "ngIf"

\* C28 as stated: at every moment a child instance exists iff showComponent
\* is true.
C28_AliveIffShown == (ChildrenAlive = 1) <=> showComponent

\* C28, amended: toggleComponent flips showComponent on every call, so the
\* flag is true exactly after an even number of calls (it starts true); at
\* most one child instance is alive at any moment; and whenever the host
\* has updated the view after the last call, a child exists iff
\* showComponent is true. Between the call and that update the child of
\* before the call is still there.
C28_ToggleAndChild ==
    /\ [](/\ showComponent <=> (Toggles % 2 = 0)
          /\ ChildrenAlive \in {0, 1}
          /\ (ChildrenAlive = 1) <=> ChildAlive
          /\ ViewUpToDate => ((ChildrenAlive = 1) <=> showComponent)
          /\ ~ViewUpToDate => ((ChildrenAlive = 1) <=> ~showComponent))
    /\ [][/\ IsToggle => (showComponent' = ~showComponent /\ pc' = "ngIf")
          /\ showComponent' # showComponent => IsToggle]_vars

C28_Witness ==
    /\ Toggles = 2
    /\ showComponent
    /\ instances = 2
    /\ pc = "idle"
    /\ Destructions = 1

(***************************************************************************)
(* The reference components.                                               *)
(***************************************************************************)
\* The entries of a changeset that are not a first change, in order.
IsLaterChange(entry) == ~entry.change.firstChange
LaterChanges(changeset) == SelectSeq(changeset, IsLaterChange)
Reactions(changeset) ==
    [i \in 1..Len(LaterChanges(changeset)) |->
        <<LaterChanges(changeset)[i].propName, LaterChanges(changeset)[i].change.currentValue>>]
UserIdChanged(changeset) ==
    {i \in 1..Len(changeset) : changeset[i].propName = PropUserId /\ IsLaterChange(changeset[i])}
RefCalled(component) == ref'.calls = ref.calls + 1 /\ ref'.component = component

\* C29: LifecycleReferenceComponent.ngOnChanges calls handleInputChange once
\* for each entry of the changeset whose firstChange is false, in iteration
\* order, with the property's name and current value, and never for a first
\* change; ConditionalInputComponent.ngOnChanges calls loadUserData, with
\* the current value, iff the changeset has a userId entry whose firstChange
\* is false.
C29_ActsOnLaterChangesOnly ==
    [][/\ RefCalled("LifecycleReferenceComponent") =>
             /\ ref'.handled = ref.handled \o Reactions(ref'.changes)
             /\ ref'.loaded = ref.loaded
             /\ Len(ref'.console) = Len(ref.console) + Len(ref'.changes)
       /\ RefCalled("ConditionalInputComponent") =>
             /\ ref'.handled = ref.handled
             /\ ref'.console = ref.console
             /\ UserIdChanged(ref'.changes) = {} => ref'.loaded = ref.loaded
             /\ \A i \in UserIdChanged(ref'.changes) :
                   ref'.loaded = Append(ref.loaded, ref'.changes[i].change.currentValue)]_vars

C29_Witness ==
    /\ ref.component = "LifecycleReferenceComponent"
    /\ Len(ref.changes) = 2
    /\ ref.changes[1].change.firstChange
    /\ ~ref.changes[2].change.firstChange
    /\ ref.handled = <<<<PropUserId, Str(<<"B">>)>>>>

(***************************************************************************)
(* Inside addLog.                                                          *)
(***************************************************************************)
InAddLog == frame # NoFrame
Returns == frame.at = "trim" /\ frame' = NoFrame
Evicted == Len(logs) - Len(logs')

\* C30: a single addLog call evicts at most one entry, the oldest, and it
\* evicts exactly when the buffer held 50 entries before the call; the
\* buffer holds 51 entries only inside such a call, between the push and
\* the shift, and while a call is under way no operation begins, so no
\* other operation sees that state.
C30_OneEvictionPerCall ==
    /\ [](/\ Len(logs) <= MaxLogs + 1
          /\ ~InAddLog => Len(logs) <= MaxLogs
          /\ Len(logs) = MaxLogs + 1 <=>
                (frame.at \in {"log", "trim"} /\ frame.before = MaxLogs)
          /\ frame.at = "push" => Len(logs) = frame.before
          /\ frame.at \in {"log", "trim"} => Len(logs) = frame.before + 1)
    /\ [][/\ Returns => (/\ Evicted = (IF frame.before = MaxLogs THEN 1 ELSE 0)
                          /\ (Evicted = 1 => logs' = Tail(logs))
                          /\ (Evicted = 0 => logs' = logs))
          /\ (InAddLog /\ ~Returns) => Len(logs') >= Len(logs)
          /\ InAddLog => calls' = calls]_vars

C30_Witness ==
    /\ frame.at = "trim"
    /\ frame.before = MaxLogs
    /\ Len(logs) = MaxLogs + 1
    /\ Last(logs) = Last(console)

=============================================================================
